---- MODULE Spec2Model ----
(***************************************************************************)
(* RenderLoop (src/mod.ts, lines 1-255): a fixed-timestep frame scheduler  *)
(* driven by the host's microtask queue and a 1 ms idle timer.             *)
(*                                                                         *)
(* Numbers.  A JavaScript number x is represented by the integer           *)
(* x * Scale, where Scale is the number of clock quanta in one second      *)
(* (the host clock is coarse: performance.now() only takes values that     *)
(* are whole quanta).  A reading of performance.now(), in milliseconds,    *)
(* is therefore a multiple of MsPerSecond, and dividing it by 1000 is      *)
(* exact.  The literal 1 of the source is One, the frame rate handed to    *)
(* the constructor is a plain integer in hertz.                            *)
(*                                                                         *)
(* Scheduling.  The body of loop() runs to completion (JavaScript is       *)
(* single-threaded); the steps of the model are a call of start() or       *)
(* stop() by the application, a signal, a run of a queued loop microtask,  *)
(* the expiry of the idle timer (with the iteration it leads to).  The     *)
(* application may call start() and stop() between any two of them, from   *)
(* the code that follows its call of start() or from a microtask of its    *)
(* own.  Every start() that finds the scheduler stopped creates a new      *)
(* closure (startupTime, lastTime, unprocessedTime) and a new completion;  *)
(* the k-th closure and the k-th completion both have the number k.  A     *)
(* closure also carries the history of its chain: the timesteps it        *)
(* drained, the ticks it delivered, and whether every iteration so far ran *)
(* while the scheduler was running and sampled less than one frame time.   *)
(* The last two are kept in the behaviours of RunSpec, which are those of  *)
(* Spec with them; in Spec they stay as start() made them.  Spec keeps     *)
(* another history in their place, the completions stop() has returned.    *)
(*                                                                         *)
(* Callbacks.  A listener of the tick event, app.tick and app.render may   *)
(* call stop().  In Spec they return; in ThrowSpec app.tick and app.render *)
(* may also throw.                                                         *)
(*                                                                         *)
(* Single chain.  SingleChainSpec is the scheduler under an application    *)
(* that calls start() only when no chain is in flight, followed up to      *)
(* MaxRunTime clock quanta.                                                *)
(* `last` records the step taken last: the callbacks it invoked, in order, *)
(* and what it left scheduled.                                             *)
(*                                                                         *)
(* Units.  The constructor converts 1 / frameRate with the global units    *)
(* table, which any code of the process may have written before (the       *)
(* setter of Number.prototype.unit is public).  CtorSpec is the program up *)
(* to the end of the constructor: tags are set, then a scheduler is made   *)
(* from any frame rate.  Spec is the program from the end of a constructor *)
(* that was given a positive frame rate and an empty table.  From there on *)
(* no value the scheduler computes depends on a tag (nowSeconds tags its   *)
(* reading as milliseconds before it converts it, zero converts to zero    *)
(* under every tag, withUnit returns its number), and Spec leaves `units`  *)
(* as the constructor left it.                                             *)
(***************************************************************************)
EXTENDS Integers, Sequences, FiniteSets, TLC

VARIABLES
  units,           \* the unit tags of the numbers the constructor converts
  frameRate,       \* the frame rate handed to the constructor
  app,             \* the RealTimeApp handed to the constructor
  _frameTime,      \* RenderLoop._frameTime
  _frames,         \* RenderLoop._frames
  _frameCounter,   \* RenderLoop._frameCounter
  _isRunning,      \* RenderLoop._isRunning
  _finished,       \* RenderLoop._finished: Null or the number of a completion
  listeners,       \* signals on which _stopIfRunning is registered
  chains,          \* the closures made by start(), one per fresh start
  resolved,        \* the completions that are resolved
  awaited,         \* the completions made by start() that stop() has returned
  clock,           \* the host clock, in quanta
  last,            \* the step taken last: what ran, what it saw, what it did
  recording        \* the history kept: "completions" (awaited), "ticks", "none"

vars == <<units, frameRate, app, _frameTime, _frames, _frameCounter, _isRunning, _finished,
          listeners, chains, resolved, awaited, clock, last, recording>>

\* What start(), stop() and the loop read and write, without the history.
program == <<_frameTime, _frames, _frameCounter, _isRunning, _finished,
             listeners, chains, resolved>>

-----------------------------------------------------------------------------
(* Bounds *)

Scale == 2          \* clock quanta per second
MaxTime == 3        \* the clock stops advancing here
MaxStarts == 2      \* fresh starts in one behaviour
MaxRunTime == 5     \* where the clock stops in SingleChainSpec

(* Program constants *)

MsPerSecond == 1000
Null == 0
Zero == 0
One == Scale

FrameRates == {f \in 1..Scale : Scale % f = 0}
Apps == {"none", "tick", "tickRender"}
Platforms == {"linux", "windows"}

-----------------------------------------------------------------------------
(* Units and the clock *)

\* Infinity, the value of 1 / 0: larger than every number met otherwise.
Infinity == 1000000 * MsPerSecond

\* n / k for a positive k.  A quotient that is not a whole number of quanta
\* is represented by the whole number below it.
Over(n, k) == IF n = Infinity THEN Infinity ELSE n \div k

\* The frame rates a caller may hand to the constructor: the positive ones,
\* zero and a negative one.
AnyFrameRates == {-1, 0} \cup FrameRates

\* 1 / frameRate.
Inverse(rate) == IF rate = 0 THEN Infinity ELSE One \div rate

\* The units table (const units = new Map<number, Unit>()), on the numbers
\* the constructor may convert.  A number the map does not hold has the unit
\* "unknown" (get unit).
Units == {"unknown", "ns", "ms", "s"}
UnitKeys == {Inverse(rate) : rate \in AnyFrameRates}
NoUnits == [n \in UnitKeys |-> "unknown"]
UnitOf(table, n) == IF n \in DOMAIN table THEN table[n] ELSE "unknown"

\* set unit, as withUnit calls it.
SetUnit(table, n, unit) ==
  IF n \in DOMAIN table THEN [table EXCEPT ![n] = unit] ELSE table

\* Number.prototype.seconds, for a number whose unit tag is `unit`.
Seconds(n, unit) ==
  CASE unit = "unknown" -> n
    [] unit = "ns" -> Over(n, 1000000)
    [] unit = "ms" -> Over(n, MsPerSecond)
    [] unit = "s" -> n

\* The table after n.seconds: a number of unknown unit is tagged seconds.
SecondsTags(table, n) ==
  IF UnitOf(table, n) = "unknown" THEN SetUnit(table, n, "s") ELSE table

\* performance.now(): milliseconds, a whole number of quanta.
PerformanceNow == clock * MsPerSecond

\* performance.nowSeconds(): the reading is tagged milliseconds, then converted.
NowSeconds == Seconds(PerformanceNow, "ms")

\* ((1 / frameRate) as Number).seconds, as the constructor computes it under
\* the units table `table`.
FrameTimeOf(rate, table) == Seconds(Inverse(rate), UnitOf(table, Inverse(rate)))

-----------------------------------------------------------------------------
(* Tick *)

Tick(desiredFrameTime, frameTime, startupTime) ==
  [desiredFrameTime |-> desiredFrameTime,
   frameTime |-> frameTime,
   startupTime |-> startupTime]

-----------------------------------------------------------------------------
(* The completion *)

\* A completion that was resolved when it was made: Promise.resolve().
Immediate == -1

\* No completion: the step returned none.
NoRet == -2

IsResolved(p) == p = Immediate \/ p \in resolved

\* get finished()
Finished(fin) == IF fin = Null THEN Immediate ELSE fin

\* The defensive assertion of get finished().
FinishedAssertion == _finished = Null => _isRunning = FALSE

InFlight == {c \in DOMAIN chains : chains[c].pc # "done"}
MicrotaskQueued == \E c \in DOMAIN chains : chains[c].pc = "microtask"
Idle == ~_isRunning /\ InFlight = {}

NoStep == [op |-> "init", chain |-> 0, wasRunning |-> FALSE, wasIdle |-> TRUE,
           ret |-> NoRet, drained |-> 0, calls |-> <<>>, next |-> "none",
           stopIn |-> "none", throwIn |-> "none"]

Step(op) == [NoStep EXCEPT !.op = op, !.wasRunning = _isRunning, !.wasIdle = Idle]

-----------------------------------------------------------------------------
(* Construction *)

\* The signals the constructor registers _stopIfRunning on (Deno.build.os).
Registered(platform) ==
  IF platform # "windows" THEN {"SIGTERM", "SIGINT"} ELSE {"SIGINT"}

\* The scheduler as the constructor leaves it, made from a positive frame
\* rate while the units table is empty.
AfterConstructor ==
  /\ app \in Apps
  /\ frameRate \in FrameRates
  /\ _frameTime = FrameTimeOf(frameRate, NoUnits)
  /\ units = SecondsTags(NoUnits, Inverse(frameRate))
  /\ _frames = 0
  /\ _frameCounter = 0
  /\ _isRunning = FALSE
  /\ _finished = Null
  /\ \E platform \in Platforms : listeners = Registered(platform)
  /\ chains = <<>>
  /\ resolved = {}
  /\ awaited = {}
  /\ clock = 0
  /\ last = NoStep

Init == AfterConstructor /\ recording = "completions"

RunInit == AfterConstructor /\ recording = "ticks"

ThrowInit == AfterConstructor /\ recording = "none"

\* Before the constructor is called there is no scheduler: its fields have
\* no value yet and are given the ones of the field initialisers.
CtorInit ==
  /\ units = NoUnits
  /\ frameRate = 0
  /\ app = "none"
  /\ _frameTime = 0
  /\ _frames = 0
  /\ _frameCounter = 0
  /\ _isRunning = FALSE
  /\ _finished = Null
  /\ listeners = {}
  /\ chains = <<>>
  /\ resolved = {}
  /\ awaited = {}
  /\ clock = 0
  /\ last = [NoStep EXCEPT !.op = "import"]
  /\ recording = "completions"

\* n.withUnit(unit), n.unit = unit: some code of the process tags the number n.
WithUnit(n, unit) ==
  /\ last.op # "init"
  /\ units' = SetUnit(units, n, unit)
  /\ last' = [NoStep EXCEPT !.op = "withUnit"]
  /\ UNCHANGED <<recording, frameRate, app, _frameTime, _frames, _frameCounter,
                 _isRunning, _finished, listeners, chains, resolved, awaited, clock>>

\* new RenderLoop(rate, application) on the platform `platform`.
Construct(rate, application, platform) ==
  /\ last.op # "init"
  /\ frameRate' = rate
  /\ app' = application
  /\ _frameTime' = FrameTimeOf(rate, units)
  /\ units' = SecondsTags(units, Inverse(rate))
  /\ _frames' = 0
  /\ _frameCounter' = 0
  /\ _isRunning' = FALSE
  /\ _finished' = Null
  /\ listeners' = Registered(platform)
  /\ last' = NoStep
  /\ UNCHANGED <<recording, chains, resolved, awaited, clock>>

CtorNext ==
  \/ \E n \in UnitKeys, unit \in Units : WithUnit(n, unit)
  \/ \E rate \in AnyFrameRates, application \in Apps, platform \in Platforms :
       Construct(rate, application, platform)

CtorSpec == CtorInit /\ [][CtorNext]_vars

-----------------------------------------------------------------------------
(* enqueueLoop *)

\* enqueueLoop with the branches of its test exchanged.
EnqueueLoopInverted(running) == IF running THEN "resolve" ELSE "microtask"

\* enqueueLoop queueing the loop whether the scheduler is running or not.
EnqueueLoopAlways(running) == "microtask"

\* enqueueLoop ending the chain without resolving the completion.
EnqueueLoopForgetful(running) == IF running THEN "microtask" ELSE "done"

\* What enqueueLoop does with the closure that called it: queue the loop as a
\* microtask when running, resolve the current completion otherwise.
EnqueueLoop(running) == IF running THEN "microtask" ELSE "resolve"

ChainPc(next) == IF next \in {"resolve", "thrown"} THEN "done" ELSE next

\* A closure whose chain has ended is never read again: it is garbage.
Ended == [startupTime |-> 0, lastTime |-> 0, unprocessedTime |-> 0, pc |-> "done",
          ticks |-> 0, drained |-> 0, steady |-> TRUE]

Collect(closure) == IF closure.pc = "done" THEN Ended ELSE closure

ResolvedBy(next, fin) == IF next = "resolve" /\ fin # Null THEN {fin} ELSE {}

-----------------------------------------------------------------------------
(* start() *)

\* The body of start() without the making of the completion.
FreshStartBare(next) ==
  LET k == Len(chains) + 1
      startupTime == NowSeconds
  IN  /\ Len(chains) < MaxStarts
      /\ _isRunning' = TRUE
      /\ _finished' = _finished
      /\ chains' = Append(chains, Collect(
            [startupTime |-> startupTime,
             lastTime |-> startupTime,
             unprocessedTime |-> Seconds(Zero, "unknown"),
             pc |-> ChainPc(next),
             ticks |-> 0, drained |-> 0, steady |-> TRUE]))
      /\ resolved' = resolved \cup ResolvedBy(next, _finished)
      /\ UNCHANGED <<_frameTime, _frames, _frameCounter, listeners>>

\* The body of start() past its guard.  `next` is what the call of
\* enqueueLoop at the end of start() does.
FreshStart(next) ==
  LET k == Len(chains) + 1
      startupTime == NowSeconds
  IN  /\ Len(chains) < MaxStarts
      /\ _isRunning' = TRUE
      /\ _finished' = k
      /\ chains' = Append(chains, Collect(
            [startupTime |-> startupTime,
             lastTime |-> startupTime,
             unprocessedTime |-> Seconds(Zero, "unknown"),
             pc |-> ChainPc(next),
             ticks |-> 0, drained |-> 0, steady |-> TRUE]))
      /\ resolved' = resolved \cup ResolvedBy(next, k)
      /\ UNCHANGED <<_frameTime, _frames, _frameCounter, listeners>>

\* start() with enqueueLoop() called before this._isRunning is set.
StartMisordered ==
  /\ last' = [Step("start") EXCEPT !.chain = Len(chains) + 1]
  /\ IF _isRunning
       THEN UNCHANGED program
       ELSE FreshStart(EnqueueLoop(_isRunning))
  /\ UNCHANGED <<recording, units, frameRate, app, awaited, clock>>

\* start() without its guard.
StartUnguarded ==
  /\ last' = [Step("start") EXCEPT !.chain = Len(chains) + 1]
  /\ FreshStart(EnqueueLoop(_isRunning'))
  /\ UNCHANGED <<recording, units, frameRate, app, awaited, clock>>

Start ==
  /\ last' = [Step("start") EXCEPT !.chain = Len(chains) + 1]
  /\ IF _isRunning
       THEN UNCHANGED program
       ELSE FreshStart(EnqueueLoop(_isRunning'))
  /\ UNCHANGED <<recording, units, frameRate, app, awaited, clock>>

-----------------------------------------------------------------------------
(* stop() *)

\* `awaited` once stop() has returned the completion p.
Returned(p) ==
  IF recording = "completions" THEN awaited \cup ({p} \ {Immediate}) ELSE awaited

\* The signals stop() removes the handler from.
Removed(platform) ==
  IF platform # "windows" THEN {"SIGTERM", "SIGINT"} ELSE {"SIGINT"}

\* The registrations after stop().  Deno.build.os is not part of the state: it
\* is any platform whose constructor can have made the current registrations,
\* and removing a handler that is not registered does nothing.
Unregistered ==
  CHOOSE l \in SUBSET listeners :
    \A platform \in Platforms :
      listeners \subseteq Registered(platform) => l = listeners \ Removed(platform)

Stop ==
  /\ last' = [Step("stop") EXCEPT !.ret = Finished(_finished)]
  /\ listeners' = Unregistered
  /\ _isRunning' = FALSE
  /\ awaited' = Returned(Finished(_finished))
  /\ UNCHANGED <<recording, units, frameRate, app, _frameTime, _frames, _frameCounter, _finished,
                 chains, resolved, clock>>

\* _stopIfRunning, run by the host when a signal it is registered on arrives.
\* A signal with no handler registered runs no code of the scheduler.  Signal
\* handlers are jobs of the event loop: none runs before the microtask queue
\* is empty.
Signal(sig) ==
  /\ sig \in listeners
  /\ ~MicrotaskQueued
  /\ last' = [Step("signal") EXCEPT
                !.ret = IF _isRunning THEN Finished(_finished) ELSE NoRet]
  /\ IF _isRunning
       THEN /\ listeners' = Unregistered
            /\ _isRunning' = FALSE
       ELSE UNCHANGED <<listeners, _isRunning>>
  /\ UNCHANGED <<recording, units, frameRate, app, _frameTime, _frames, _frameCounter,
                 _finished, chains, resolved, awaited, clock>>

-----------------------------------------------------------------------------
(* The clock *)

AdvanceClock ==
  /\ clock < MaxTime
  /\ clock' = clock + 1
  /\ last' = Step("clock")
  /\ UNCHANGED <<recording, units, frameRate, app, _frameTime, _frames, _frameCounter, _isRunning,
                 _finished, listeners, chains, resolved, awaited>>

-----------------------------------------------------------------------------
(* loop *)

\* The drain loop: while (unprocessedTime > this._frameTime) { ... }.  The
\* number of timesteps drained is counted along the way.
\* The drain loop marking a timestep whether or not the scheduler is running.
RECURSIVE DrainUngated(_, _, _, _, _)
DrainUngated(unprocessedTime, shouldRender, drained, frameTime, running) ==
  IF unprocessedTime > frameTime
    THEN DrainUngated(unprocessedTime - frameTime, TRUE, drained + 1, frameTime, running)
    ELSE [unprocessedTime |-> unprocessedTime,
          shouldRender |-> shouldRender,
          drained |-> drained]

\* The drain loop with >= for >.
RECURSIVE DrainInclusive(_, _, _, _, _)
DrainInclusive(unprocessedTime, shouldRender, drained, frameTime, running) ==
  IF unprocessedTime >= frameTime
    THEN DrainInclusive(unprocessedTime - frameTime, running, drained + 1, frameTime, running)
    ELSE [unprocessedTime |-> unprocessedTime,
          shouldRender |-> shouldRender,
          drained |-> drained]

\* The drain loop throwing the remainder away once it has drained a timestep.
RECURSIVE DrainDiscarding(_, _, _, _, _)
DrainDiscarding(unprocessedTime, shouldRender, drained, frameTime, running) ==
  IF unprocessedTime > frameTime
    THEN DrainDiscarding(unprocessedTime - frameTime, running, drained + 1, frameTime, running)
    ELSE [unprocessedTime |-> IF drained > 0 THEN 0 ELSE unprocessedTime,
          shouldRender |-> shouldRender,
          drained |-> drained]

RECURSIVE Drain(_, _, _, _, _)
Drain(unprocessedTime, shouldRender, drained, frameTime, running) ==
  IF unprocessedTime > frameTime
    THEN Drain(unprocessedTime - frameTime, running, drained + 1, frameTime, running)
    ELSE [unprocessedTime |-> unprocessedTime,
          shouldRender |-> shouldRender,
          drained |-> drained]

\* The tick with its first two arguments exchanged.
NewTickSwapped(frameTime, passedTime, startupTime) ==
  Tick(passedTime, frameTime, startupTime)

\* The tick the loop constructs.
NewTick(frameTime, passedTime, startupTime) ==
  Tick(frameTime, passedTime, startupTime)

\* The callbacks with app.tick ahead of the broadcast.
CallbacksAppFirst(tick) ==
  (IF app # "none" THEN <<[fn |-> "app.tick", arg |-> <<tick>>]>> ELSE <<>>)
  \o <<[fn |-> "dispatchEvent", arg |-> <<tick>>]>>
  \o (IF app = "tickRender" THEN <<[fn |-> "app.render", arg |-> <<>>]>> ELSE <<>>)

\* dispatchEvent, app?.tick, app?.render, in the order the loop invokes them.
Callbacks(tick) ==
  <<[fn |-> "dispatchEvent", arg |-> <<tick>>]>>
  \o (IF app # "none" THEN <<[fn |-> "app.tick", arg |-> <<tick>>]>> ELSE <<>>)
  \o (IF app = "tickRender" THEN <<[fn |-> "app.render", arg |-> <<>>]>> ELSE <<>>)

\* The clock reading taken for the time passed since the last sample.
PassedTimeAbsolute(startTime, lastTime) == startTime

\* passedTime = startTime - lastTime
PassedTime(startTime, lastTime) == startTime - lastTime

\* The frame count left at 0 by the rollover of the window.
CountFrameLate(frames, frameCounter) ==
  IF frameCounter >= One
    THEN [frames |-> 0, frameCounter |-> 0]
    ELSE [frames |-> frames + 1, frameCounter |-> frameCounter]

\* The rollover of the window keeping the frames counted so far.
CountFrameKeeping(frames, frameCounter) ==
  IF frameCounter >= One
    THEN [frames |-> frames + 1, frameCounter |-> 0]
    ELSE [frames |-> frames + 1, frameCounter |-> frameCounter]

\* "Calculate frame rate".
CountFrame(frames, frameCounter) ==
  IF frameCounter >= One
    THEN [frames |-> 0 + 1, frameCounter |-> 0]
    ELSE [frames |-> frames + 1, frameCounter |-> frameCounter]

\* What a callback of the iteration may do: return, or call stop().
StopIn == {"none", "listener", "tick", "render"}

CanStopIn(stopIn) ==
  \/ stopIn \in {"none", "listener"}
  \/ stopIn = "tick" /\ app # "none"
  \/ stopIn = "render" /\ app = "tickRender"

\* What app.tick and app.render may do besides: throw.  (An exception of a
\* listener of the tick event does not leave dispatchEvent.)
ThrowIn == {"none", "tick", "render"}

CanThrowIn(throwIn) ==
  \/ throwIn = "none"
  \/ throwIn = "tick" /\ app # "none"
  \/ throwIn = "render" /\ app = "tickRender"

\* The callback a stop() or a throw happens in.
FnOf(where) ==
  CASE where = "listener" -> "dispatchEvent"
    [] where = "tick" -> "app.tick"
    [] where = "render" -> "app.render"
    [] where = "none" -> "none"

\* The place in `calls` of the callback named by `where`: 0 when there is none.
Position(calls, where) ==
  IF \E i \in 1..Len(calls) : calls[i].fn = FnOf(where)
    THEN CHOOSE i \in 1..Len(calls) : calls[i].fn = FnOf(where)
    ELSE 0

\* The callbacks invoked up to the first one in which stop() was called.
InvokedWhileRunning(calls, stopAt, throwAt) ==
  IF stopAt = 0 /\ throwAt = 0 THEN calls
  ELSE IF stopAt = 0 THEN SubSeq(calls, 1, throwAt)
  ELSE IF throwAt = 0 THEN SubSeq(calls, 1, stopAt)
  ELSE SubSeq(calls, 1, IF stopAt < throwAt THEN stopAt ELSE throwAt)

\* The callbacks the iteration invokes, of those it has to invoke: the
\* statements between them do not read _isRunning, and an exception ends the
\* body of loop at the callback that threw it.
Invoked(calls, stopAt, throwAt) ==
  IF throwAt = 0 THEN calls ELSE SubSeq(calls, 1, throwAt)

\* The exception caught and the iteration carried on.
AfterCallbacksCaught(thrown, running) == EnqueueLoop(running)

\* What follows the callbacks: the frame count and enqueueLoop, reached only
\* when no callback threw.
AfterCallbacks(thrown, running) ==
  IF thrown THEN "thrown" ELSE EnqueueLoop(running)

\* One run of the body of loop for closure c.
Iteration(c, stopIn, throwIn) ==
  /\ LET ch == chains[c]
         startTime == NowSeconds
         passedTime == PassedTime(startTime, ch.lastTime)
         steady == ch.steady /\ _isRunning /\ passedTime < _frameTime
         d == Drain(ch.unprocessedTime + passedTime, FALSE, 0, _frameTime, _isRunning)
         frameCounter == _frameCounter + passedTime
     IN  IF ~d.shouldRender
           THEN \* async.delay(1).then(enqueueLoop)
                /\ stopIn = "none"
                /\ throwIn = "none"
                /\ chains' = [chains EXCEPT ![c] =
                     [@ EXCEPT !.lastTime = startTime,
                               !.unprocessedTime = d.unprocessedTime,
                               !.pc = "delay",
                               !.drained = @ + d.drained,
                               !.steady = IF recording = "ticks" THEN steady ELSE @]]
                /\ _frameCounter' = frameCounter
                /\ last' = [Step("loop") EXCEPT
                              !.chain = c, !.drained = d.drained, !.next = "delay"]
                /\ UNCHANGED <<_frames, _isRunning, _finished, listeners,
                               resolved, awaited>>
           ELSE LET tick == NewTick(_frameTime, passedTime, ch.startupTime)
                    calls == Callbacks(tick)
                    stopAt == Position(calls, stopIn)
                    throwAt == Position(calls, throwIn)
                    running == _isRunning /\ stopIn = "none"
                    next == AfterCallbacks(throwAt # 0, running)
                    count == IF next = "thrown"
                               THEN [frames |-> _frames, frameCounter |-> frameCounter]
                               ELSE CountFrame(_frames, frameCounter)
                IN  /\ CanStopIn(stopIn)
                    /\ CanThrowIn(throwIn)
                    /\ stopAt # 0 /\ throwAt # 0 => stopAt <= throwAt
                    /\ _isRunning' = running
                    /\ listeners' = IF stopIn = "none" THEN listeners
                                    ELSE Unregistered
                    /\ awaited' = IF stopIn = "none" THEN awaited
                                  ELSE Returned(Finished(_finished))
                    /\ _frames' = count.frames
                    /\ _frameCounter' = count.frameCounter
                    /\ chains' = [chains EXCEPT ![c] =
                         Collect([@ EXCEPT !.lastTime = startTime,
                                           !.unprocessedTime = d.unprocessedTime,
                                           !.pc = ChainPc(next),
                                           !.ticks = IF recording = "ticks" THEN @ + 1 ELSE @,
                                           !.drained = @ + d.drained,
                                           !.steady = IF recording = "ticks" THEN steady ELSE @])]
                    /\ resolved' = resolved \cup ResolvedBy(next, _finished)
                    /\ last' = [Step("loop") EXCEPT
                                  !.chain = c, !.drained = d.drained,
                                  !.calls = Invoked(calls, stopAt, throwAt),
                                  !.next = next,
                                  !.stopIn = stopIn, !.throwIn = throwIn,
                                  !.ret = IF stopIn = "none" THEN NoRet
                                          ELSE Finished(_finished)]
                    /\ UNCHANGED _finished
  /\ UNCHANGED <<recording, units, frameRate, app, _frameTime, clock>>

\* The loop microtask of closure c runs: the one start() queued, or the one
\* queued at the end of an iteration that delivered a tick.
Loop(c, stopIn, throwIn) ==
  /\ c \in DOMAIN chains
  /\ chains[c].pc = "microtask"
  /\ Iteration(c, stopIn, throwIn)

\* The idle timer of closure c expires and its continuation, enqueueLoop,
\* runs.  Timers are jobs of the event loop: none runs before the microtask
\* queue is empty, and the microtask enqueueLoop queues is the only one of
\* this job, so the iteration runs before the job ends.
DelayFire(c, stopIn, throwIn) ==
  /\ c \in DOMAIN chains
  /\ chains[c].pc = "delay"
  /\ ~MicrotaskQueued
  /\ LET next == EnqueueLoop(_isRunning)
     IN  IF next = "microtask"
           THEN Iteration(c, stopIn, throwIn)
           ELSE /\ stopIn = "none"
                /\ throwIn = "none"
                /\ chains' = [chains EXCEPT ![c] = Collect([@ EXCEPT !.pc = ChainPc(next)])]
                /\ resolved' = resolved \cup ResolvedBy(next, _finished)
                /\ last' = [Step("delay") EXCEPT !.chain = c, !.next = next]
                /\ UNCHANGED <<recording, units, frameRate, app, _frameTime, _frames, _frameCounter, _isRunning,
                               _finished, listeners, awaited, clock>>

-----------------------------------------------------------------------------
(* Specifications *)

\* The steps of a chain whose callbacks return.
LoopStep(c) == \E stopIn \in StopIn : Loop(c, stopIn, "none")

TimerStep(c) == \E stopIn \in StopIn : DelayFire(c, stopIn, "none")

\* The steps of a chain whose callbacks return or throw.
ThrowingLoopStep(c) ==
  \E stopIn \in StopIn, throwIn \in ThrowIn : Loop(c, stopIn, throwIn)

ThrowingTimerStep(c) ==
  \E stopIn \in StopIn, throwIn \in ThrowIn : DelayFire(c, stopIn, throwIn)

Next ==
  \/ Start
  \/ Stop
  \/ \E sig \in {"SIGTERM", "SIGINT"} : Signal(sig)
  \/ AdvanceClock
  \/ \E c \in 1..MaxStarts : LoopStep(c)
  \/ \E c \in 1..MaxStarts : TimerStep(c)

Spec == Init /\ [][Next]_vars

\* The scheduler with an application whose callbacks may throw.  The host
\* reports the rejection of the promise of loop and goes on.  No history is
\* kept besides `last`.
ThrowNext ==
  \/ Start
  \/ Stop
  \/ \E sig \in {"SIGTERM", "SIGINT"} : Signal(sig)
  \/ AdvanceClock
  \/ \E c \in 1..MaxStarts : ThrowingLoopStep(c)
  \/ \E c \in 1..MaxStarts : ThrowingTimerStep(c)

ThrowSpec == ThrowInit /\ [][ThrowNext]_vars

\* get fps()
Fps == _frames

\* The scheduler of an application that calls start() only when no chain is
\* in flight, so that every run has a single chain, followed for a longer time.
StartAlone == InFlight = {} /\ Start

AdvanceRunClock ==
  /\ clock < MaxRunTime
  /\ clock' = clock + 1
  /\ last' = Step("clock")
  /\ UNCHANGED <<recording, units, frameRate, app, _frameTime, _frames,
                 _frameCounter, _isRunning, _finished, listeners, chains,
                 resolved, awaited>>

SingleChainInit == AfterConstructor /\ recording = "none"

SingleChainNext ==
  \/ StartAlone
  \/ Stop
  \/ \E sig \in {"SIGTERM", "SIGINT"} : Signal(sig)
  \/ AdvanceRunClock
  \/ \E c \in 1..MaxStarts : LoopStep(c)
  \/ \E c \in 1..MaxStarts : TimerStep(c)

SingleChainSpec == SingleChainInit /\ [][SingleChainNext]_vars

\* Spec with the ticks and the samples of every chain kept in its closure,
\* and without the completions stop() has returned.
RunSpec == RunInit /\ [][Next]_vars

\* The host keeps running queued microtasks and expired timers.
FairSpec ==
  /\ Spec
  /\ \A c \in 1..MaxStarts : WF_vars(LoopStep(c)) /\ SF_vars(TimerStep(c))

TypeOK ==
  /\ recording \in {"completions", "ticks", "none"}
  /\ frameRate \in AnyFrameRates
  /\ units \in [UnitKeys -> Units]
  /\ _isRunning \in BOOLEAN
  /\ _finished \in 0..MaxStarts
  /\ Len(chains) <= MaxStarts
  /\ clock \in 0..MaxTime \cup 0..MaxRunTime
  /\ resolved \subseteq 1..MaxStarts
  /\ awaited \subseteq {Immediate} \cup 1..MaxStarts

-----------------------------------------------------------------------------
(* Observations *)

\* The ticks of the calls of `fn` in a sequence of callback invocations.
RECURSIVE TicksOf(_, _)
TicksOf(calls, fn) ==
  IF calls = <<>> THEN <<>>
  ELSE (IF Head(calls).fn = fn THEN Head(calls).arg ELSE <<>>)
       \o TicksOf(Tail(calls), fn)

\* The Ticks an iteration constructed: it broadcasts each one it constructs.
Constructed(calls) == Len(TicksOf(calls, "dispatchEvent"))

-----------------------------------------------------------------------------
(* Properties *)

\* C1: start() on a scheduler that is not running sets isRunning to true in
\* the call itself and only queues the first iteration: the new closure is
\* left waiting as a microtask, no callback is invoked, no counter moves and
\* no other closure is touched inside the call.
C1_StartDefersFirstIteration ==
  [][(last'.op = "start" /\ ~_isRunning) =>
       /\ _isRunning'
       /\ Len(chains') = Len(chains) + 1
       /\ chains'[Len(chains')].pc = "microtask"
       /\ chains'[Len(chains')].lastTime = chains'[Len(chains')].startupTime
       /\ chains'[Len(chains')].unprocessedTime = 0
       /\ \A c \in DOMAIN chains : chains'[c] = chains[c]
       /\ last'.calls = <<>>
       /\ UNCHANGED <<_frames, _frameCounter, resolved>>]_vars

C1_Witness ==
  /\ last.op = "start"
  /\ ~last.wasRunning
  /\ _isRunning
  /\ chains[last.chain].pc = "microtask"

\* C2: a completion is resolved only by a step that leaves isRunning false,
\* so a resolved completion returned by stop() is observed with isRunning
\* false, and only a call of start() makes isRunning true again.
C2_ResolvedOnlyWhenStopped ==
  [][/\ resolved' # resolved => ~_isRunning'
     /\ (~_isRunning /\ _isRunning') => last'.op = "start"]_vars

C2_Witness ==
  /\ \E p \in awaited : p # Immediate /\ IsResolved(p)
  /\ ~_isRunning
  /\ last.op \in {"loop", "delay"}
  /\ last.next = "resolve"

\* C3: every completion returned by a call of stop() is eventually resolved,
\* whatever calls of start() and stop() follow, as long as the host keeps
\* running queued microtasks and expired timers.
C3_EveryStopCompletes ==
  \A p \in {Immediate} \cup 1..MaxStarts :
    [](p \in awaited => <>IsResolved(p))

\* C4: an iteration that runs while isRunning is false delivers nothing: it
\* invokes no callback, constructs no Tick and goes to the idle delay, even
\* when it drains timesteps.
C4_NoTickWhileStopped ==
  [][(last'.op = "loop" /\ ~_isRunning) =>
       /\ last'.calls = <<>>
       /\ last'.next = "delay"
       /\ chains'[last'.chain].pc = "delay"
       /\ UNCHANGED <<_frames, resolved>>]_vars

C4_Witness ==
  /\ last.op = "loop"
  /\ ~last.wasRunning
  /\ last.drained >= 1
  /\ last.calls = <<>>

\* C5: an iteration constructs a Tick exactly when the unprocessed time, after
\* the elapsed time is added, is strictly greater than the frame time and the
\* scheduler is running; it then constructs exactly one, however many
\* timesteps it drains.  An iteration that drains none invokes no callback
\* and leaves its closure waiting for the idle timer.
C5_OneTickPerDrainingIteration ==
  [][last'.op = "loop" =>
       LET c == last'.chain
           due == chains[c].unprocessedTime + (NowSeconds - chains[c].lastTime)
                    > _frameTime
       IN  /\ (last'.drained >= 1) <=> due
           /\ Constructed(last'.calls) = IF due /\ _isRunning THEN 1 ELSE 0
           /\ last'.calls = <<>> <=> Constructed(last'.calls) = 0
           /\ ~due => /\ last'.next = "delay"
                      /\ chains'[c].pc = "delay"
                      /\ UNCHANGED _frames]_vars

C5_Witness ==
  /\ last.op = "loop"
  /\ last.drained >= 2
  /\ Constructed(last.calls) = 1

\* C6: every Tick handed to a subscriber or to app.tick has frameTime > 0 and
\* desiredFrameTime equal to the frame time of the scheduler.
C6_TickFields ==
  \A i \in DOMAIN last.calls :
    \A j \in DOMAIN last.calls[i].arg :
      /\ last.calls[i].arg[j].frameTime > 0
      /\ last.calls[i].arg[j].desiredFrameTime = _frameTime

C6_Witness ==
  /\ last.op = "loop"
  /\ Constructed(last.calls) = 1
  /\ app # "none"
  /\ last.calls[2].arg[1].frameTime > last.calls[2].arg[1].desiredFrameTime

\* C7: an iteration that delivers a tick broadcasts it, then hands the same
\* Tick to app.tick, then invokes app.render, each of the last two if the
\* application has it; subscribers and app.tick have then seen the same Ticks
\* in the same order.
C7_BroadcastThenTickThenRender ==
  /\ (last.op = "loop" /\ last.calls # <<>>) =>
       /\ last.calls[1].fn = "dispatchEvent"
       /\ Len(last.calls) =
            1 + (IF app # "none" THEN 1 ELSE 0) + (IF app = "tickRender" THEN 1 ELSE 0)
       /\ app # "none" =>
            /\ last.calls[2].fn = "app.tick"
            /\ last.calls[2].arg = last.calls[1].arg
       /\ app = "tickRender" =>
            /\ last.calls[3].fn = "app.render"
            /\ last.calls[3].arg = <<>>
  /\ app # "none" => TicksOf(last.calls, "app.tick") = TicksOf(last.calls, "dispatchEvent")
  /\ app = "none" => TicksOf(last.calls, "app.tick") = <<>>

C7_Witness ==
  /\ app = "tickRender"
  /\ last.op = "loop"
  /\ Len(last.calls) = 3
  /\ last.wasRunning
  /\ ~_isRunning

\* C8: start() on a running scheduler changes nothing: no closure is added,
\* the completion is not replaced, no closure's startupTime or
\* unprocessedTime and neither frame counter changes.
C8_StartWhileRunningIsNoOp ==
  [][(last'.op = "start" /\ _isRunning) =>
       UNCHANGED <<program, awaited, clock>>]_vars

C8_Witness ==
  /\ last.op = "start"
  /\ last.wasRunning
  /\ InFlight # {}

\* C9: stop() on a scheduler that was never started, or whose run has fully
\* completed, leaves isRunning false, returns a completion that is already
\* resolved and changes nothing else but the signal registrations; a second
\* stop() right after a first returns the same completion and changes
\* nothing at all.
C9_StopWhenIdle ==
  [][/\ (last'.op = "stop" /\ Idle) =>
          /\ ~_isRunning'
          /\ IsResolved(last'.ret)
          /\ Idle'
          /\ UNCHANGED <<_frameTime, _frames, _frameCounter, _isRunning,
                         _finished, chains, resolved, clock>>
     /\ (last'.op = "stop" /\ last.op = "stop") =>
          /\ last'.ret = last.ret
          /\ UNCHANGED <<program, awaited, clock>>]_vars

C9_Witness ==
  /\ last.op = "stop"
  /\ last.wasIdle
  /\ last.ret # Immediate
  /\ IsResolved(last.ret)

\* C10: every start() on a scheduler that is not running begins a fresh run:
\* the new closure has the current time as startupTime and no unprocessed
\* time, and both frame counters are 0.
C10_FreshStartResets ==
  (last.op = "start" /\ ~last.wasRunning) =>
    /\ chains[last.chain].startupTime = NowSeconds
    /\ chains[last.chain].lastTime = NowSeconds
    /\ chains[last.chain].unprocessedTime = 0
    /\ _frames = 0
    /\ _frameCounter = 0

-----------------------------------------------------------------------------
\* C11: in every run of the scheduler a SIGINT reaches stop(): whenever the
\* scheduler is running, _stopIfRunning is registered on SIGINT.
C11_SignalStopsEveryRun == _isRunning => "SIGINT" \in listeners

-----------------------------------------------------------------------------
\* C12: the constructor rejects a frame rate that is zero or negative: every
\* scheduler that exists was made from a positive frame rate, and its frame
\* time is neither negative nor infinite.
C12_NonPositiveRateRejected ==
  last.op = "init" => frameRate > 0 /\ _frameTime >= 0 /\ _frameTime # Infinity

-----------------------------------------------------------------------------
\* C13: a scheduler made from a positive frame rate F has the frame time 1 / F,
\* whatever tags the units table held when it was made.
C13_FrameTimeIsInverseRate ==
  (last.op = "init" /\ frameRate > 0) => _frameTime = Inverse(frameRate)

-----------------------------------------------------------------------------
\* C14: at the end of every iteration of a chain, the ticks the chain has
\* delivered since its start(), times the frame time, do not exceed the time
\* elapsed since that start(); and when every iteration of the chain so far
\* ran while the scheduler was running and sampled less than one frame time,
\* the ticks delivered are at least elapsed / frameTime - 1.
C14_TicksFollowElapsedTime ==
  [][last'.op = "loop" =>
       LET ch == chains[last'.chain]
           ticks == ch.ticks + Constructed(last'.calls)
           elapsed == NowSeconds - ch.startupTime
           steady == ch.steady /\ _isRunning /\ NowSeconds - ch.lastTime < _frameTime
       IN  /\ ticks * _frameTime <= elapsed
           /\ steady => (ticks + 1) * _frameTime >= elapsed]_vars

\* A chain that never sampled a whole frame time has delivered a tick.
C14_Witness ==
  /\ last.op = "loop"
  /\ Constructed(last.calls) = 1
  /\ last.chain \in InFlight
  /\ chains[last.chain].steady
  /\ chains[last.chain].ticks >= 1

-----------------------------------------------------------------------------
\* C15: at the end of every iteration of a chain in flight, running or not, the
\* time sampled since its start() is the timesteps drained times the frame time
\* plus unprocessedTime (unprocessedTime is the sum of the sampled times less
\* one frame time for every timestep drained, and nothing else), and
\* unprocessedTime lies between 0 and the frame time.
C15_AccumulatorConservation ==
  \A c \in InFlight :
    /\ chains[c].lastTime - chains[c].startupTime
         = chains[c].drained * _frameTime + chains[c].unprocessedTime
    /\ 0 <= chains[c].unprocessedTime
    /\ chains[c].unprocessedTime <= _frameTime

\* The first iteration of a chain has drained more than one timestep and left
\* a remainder.
C15_Witness ==
  /\ last.op = "loop"
  /\ last.drained >= 2
  /\ last.chain \in InFlight
  /\ chains[last.chain].unprocessedTime > 0
  /\ chains[last.chain].drained = last.drained

-----------------------------------------------------------------------------
\* C16: an iteration that delivers a tick adds exactly 1 to _frames when the
\* window accumulator, with the time the iteration sampled, is below one second,
\* and leaves _frames = 1 and the accumulator 0 when it is one second or more,
\* however many timesteps it drained; no other step changes _frames.
C16_FrameRateCountsIterations ==
  [][IF last'.op = "loop" /\ Constructed(last'.calls) = 1
       THEN LET window == _frameCounter + (NowSeconds - chains[last'.chain].lastTime)
            IN  IF window >= One
                  THEN _frames' = 1 /\ _frameCounter' = 0
                  ELSE _frames' = _frames + 1 /\ _frameCounter' = window
       ELSE _frames' = _frames]_vars

\* A tick-delivering iteration has added 1 to the frame count of a window
\* that an earlier one had opened.
C16_Witness ==
  /\ last.op = "loop"
  /\ Constructed(last.calls) = 1
  /\ _frames = 2
  /\ _frameCounter > 0

-----------------------------------------------------------------------------
\* C17: while the scheduler is stopped, a chain in flight delivers no tick and
\* only moves towards its end: a queued loop runs one iteration body and leaves
\* an idle delay, and an idle delay that expires runs no iteration, resolves
\* the completion and ends the chain.
C17_ChainEndsAfterStop ==
  [][(~_isRunning /\ last'.op \in {"loop", "delay"}) =>
       LET c == last'.chain
       IN  /\ last'.calls = <<>>
           /\ IF chains[c].pc = "microtask"
                THEN last'.op = "loop" /\ chains'[c].pc = "delay"
                ELSE /\ chains[c].pc = "delay"
                     /\ last'.op = "delay"
                     /\ chains'[c].pc = "done"
                     /\ _finished \in resolved']_vars

\* A chain has ended on the expiry of its idle delay after a stop().
C17_Witness ==
  /\ last.op = "delay"
  /\ ~last.wasRunning
  /\ last.next = "resolve"
  /\ _finished \in resolved
  /\ _finished \in awaited
  /\ InFlight = {}

-----------------------------------------------------------------------------
\* C18: the assertion of get finished() never fails: in every reachable state
\* a scheduler without a completion is not running.
C18_AssertionNeverFires == FinishedAssertion

\* finished was read (by stop()) while there was no completion.
C18_Witness ==
  /\ last.op = "stop"
  /\ last.ret = Immediate
  /\ _finished = Null

-----------------------------------------------------------------------------
\* C19: every tick delivered carries the startupTime of the most recent
\* start(), the one that made the newest closure.
C19_TickOfLatestStart ==
  [][last'.op = "loop" =>
       \A i \in 1..Len(last'.calls) :
         \A j \in 1..Len(last'.calls[i].arg) :
           last'.calls[i].arg[j].startupTime = chains[Len(chains)].startupTime]_vars

-----------------------------------------------------------------------------
\* C20: at most one iteration chain is in flight.
C20_OneChainInFlight == Cardinality(InFlight) <= 1

-----------------------------------------------------------------------------
\* C21: an iteration in which a listener of the tick event or app.tick calls
\* stop() still invokes every callback after it (app.tick after the broadcast,
\* app.render) and still counts the frame; it then resolves the completion and
\* ends its chain without queueing another iteration.
C21_StopInCallbackFinishesIteration ==
  [][(last'.op = "loop" /\ last'.stopIn \in {"listener", "tick"}) =>
       LET c == last'.chain
           window == _frameCounter + (NowSeconds - chains[c].lastTime)
           names == [i \in 1..Len(last'.calls) |-> last'.calls[i].fn]
       IN  /\ names = <<"dispatchEvent">>
                       \o (IF app # "none" THEN <<"app.tick">> ELSE <<>>)
                       \o (IF app = "tickRender" THEN <<"app.render">> ELSE <<>>)
           /\ _frames' = IF window >= One THEN 1 ELSE _frames + 1
           /\ ~_isRunning'
           /\ last'.next = "resolve"
           /\ _finished \in resolved'
           /\ chains'[c].pc = "done"]_vars

\* A listener of the tick event has called stop(); app.tick and app.render
\* ran after it and the completion is resolved.
C21_Witness ==
  /\ last.op = "loop"
  /\ last.stopIn = "listener"
  /\ Len(last.calls) = 3
  /\ last.calls[3].fn = "app.render"
  /\ last.ret \in resolved
  /\ _frames >= 1

-----------------------------------------------------------------------------
\* C22: when app.tick or app.render throws, the scheduler does not catch the
\* exception: no callback is invoked after the one that threw, _frames is not
\* incremented, the chain queues no further iteration, and _isRunning and the
\* completion stay as they were when the callback threw.
C22_ThrowEndsChain ==
  [][(last'.op = "loop" /\ last'.throwIn # "none") =>
       LET c == last'.chain
       IN  /\ last'.calls # <<>>
           /\ last'.calls[Len(last'.calls)].fn = FnOf(last'.throwIn)
           /\ _frames' = _frames
           /\ c \notin InFlight'
           /\ _isRunning' = (_isRunning /\ last'.stopIn = "none")
           /\ _finished' = _finished
           /\ resolved' = resolved]_vars

\* app.tick has thrown: the scheduler is still running, with no chain in
\* flight and its completion pending.
C22_Witness ==
  /\ last.op = "loop"
  /\ last.throwIn = "tick"
  /\ app = "tickRender"
  /\ _isRunning
  /\ InFlight = {}
  /\ _finished \notin resolved

-----------------------------------------------------------------------------
\* C23: while every run of the scheduler has a single chain, the measured
\* frame rate never exceeds the frame rate given to the constructor by more
\* than one.
C23_FpsAtMostRatePlusOne == Fps <= frameRate + 1

\* The measured frame rate has passed the configured one.
C23_Witness ==
  /\ last.op = "loop"
  /\ Constructed(last.calls) = 1
  /\ Fps = frameRate + 1

====
